---- MODULE Spec2Model ----
(***************************************************************************)
(* Omnichannel conversation routing and closure engine (LivechatClass):    *)
(* closeRoom, resolveChatTags and checkOnlineAgents, together with the     *)
(* stores they read and write.                                             *)
(***************************************************************************)
EXTENDS Integers, Sequences, FiniteSets, TLC

\* ------------------------------------------------------------------ bounds
MaxTagLen == 2      \* longest tag array of a room, a close request or a department
MaxTime == 3        \* timestamps are 0 .. MaxTime seconds
MaxCalls == 2       \* closeRoom calls made in all
MaxHops == 4        \* cap on the recursion depth the model follows
MaxMsgs == 3        \* most messages in the store before a transcript is sent

\* ------------------------------------------------------------ model values
Procs == {"p1", "p2"}
RoomIds == {"R1", "R2"}
DeptIds == {"D1", "D2", "D3"}
Tags == {"t1", "t2"}

\* an optional value: undefined, or the value
None == <<>>
Some(x) == <<x>>

SeqsUpTo(S, n) == UNION {[1..k -> S] : k \in 0..n}

\* Date values: whole seconds, held in milliseconds as Date.getTime() gives them
Times == {k * 1000 : k \in 0..MaxTime}

VARIABLES
    rooms,        \* LivechatRooms: room id -> the stored room record
    inquiries,    \* LivechatInquiry: the room ids that have an inquiry record
    subscriptions,\* Subscriptions: the room ids that have subscriptions
    messages,     \* Messages: the messages inserted, in order
    events,       \* what was emitted to the Apps bridge and the callback chain, in order
    ticks,        \* process.nextTick callbacks scheduled and not yet run
    departments,  \* LivechatDepartment: department id -> None or the record
    onlineDeps,   \* LivechatDepartmentAgents: the departments with online agents
    usersOnline,  \* Users: the agents that are online
    pc,           \* each closeRoom caller's position
    params,       \* the params of each caller's current (or last) closeRoom call
    closeData,    \* closeRoom's closeData
    chatCloser,   \* closeRoom's chatCloser
    newRoom,      \* closeRoom's newRoom
    pending,      \* the writes of the Promise.all that have not been applied yet
    result,       \* how each caller's last closeRoom call ended
    calls,        \* closeRoom calls made so far
    agPc,         \* checkOnlineAgents: position
    agArgs,       \* checkOnlineAgents: the arguments of the outermost call
    agFrame,      \* checkOnlineAgents: the arguments of the innermost call
    agHops,       \* checkOnlineAgents: recursive calls made
    agResult,     \* checkOnlineAgents: the value returned
    settings,     \* settings.get: the Livechat settings online reads
    botDeps,      \* LivechatDepartmentAgents: the departments with bot agents
    botUsers,     \* Users: whether a bot agent exists
    onPc,         \* online: position
    onArgs,       \* online: its arguments
    onResult,     \* online: the value returned
    detached,     \* store writes of a failed Promise.all that are still under way
    visitors,     \* LivechatVisitors: token -> None or the visitor
    rocketCat,    \* Users: whether the user rocket.cat exists
    mailSettings, \* settings.get: the settings sendTranscript reads
    emails,       \* Mailer: the emails sent, in order
    deferred,     \* Meteor.defer callbacks scheduled and not yet run
    trPc,         \* sendTranscript: position
    trArgs,       \* sendTranscript: its arguments
    trLocals,     \* sendTranscript: visitor, closingMessage, query time, messages, html
    trResult      \* sendTranscript: how the call ended

storeVars == <<rooms, inquiries, subscriptions, messages, events, ticks>>
deptVars == <<departments, onlineDeps, usersOnline>>
callVars == <<pc, params, closeData, chatCloser, newRoom, pending, result, calls>>
agVars == <<agPc, agArgs, agFrame, agHops, agResult>>
onVars == <<settings, botDeps, botUsers, onPc, onArgs, onResult>>
mailVars == <<visitors, rocketCat, mailSettings, emails, deferred>>
trVars == <<trPc, trArgs, trLocals, trResult>>
sideVars == <<onVars, detached, mailVars, trVars>>
vars == <<storeVars, deptVars, callVars, agVars, sideVars>>

\* ------------------------------------------------------------ pure helpers
\* the arrays that are defined, concatenated
RECURSIVE Flatten(_)
Flatten(arrays) ==
    IF arrays = <<>> THEN <<>>
    ELSE (IF Head(arrays) = None THEN <<>> ELSE Head(arrays)[1]) \o Flatten(Tail(arrays))

\* [...new Set(s)]: the first occurrence of each element, in order
RECURSIVE UniqueFrom(_, _)
UniqueFrom(s, acc) ==
    IF s = <<>> THEN acc
    ELSE UniqueFrom(Tail(s),
                    IF \E i \in 1..Len(acc) : acc[i] = Head(s) THEN acc
                    ELSE Append(acc, Head(s)))

concatUniqueNoDedup(arrays) == Flatten(arrays)

concatUnique(arrays) == UniqueFrom(Flatten(arrays), <<>>)

\* ...(tags.length && { tags }) spread over options
WithTags(options, tags) ==
    IF Len(tags) > 0 THEN [options EXCEPT !.tags = Some(tags)] ELSE options

checkRoomTagsAlways(clientAction, roomTags) == TRUE

checkRoomTags(clientAction, roomTags) == ~clientAction \/ Len(roomTags) > 0

checkDepartmentTagsAlways(chatClosingTags) == TRUE

checkDepartmentTags(chatClosingTags) ==
    chatClosingTags # None /\ Len(chatClosingTags[1]) > 0

\* LivechatDepartment.findOneById
findDepartment(departmentId) ==
    IF departmentId \in DOMAIN departments THEN departments[departmentId] ELSE None

\* resolveChatTags: threw is the 'error-tags-must-be-assigned-before-closing-chat' error
resolveChatTags(room, options) ==
    LET roomTags == concatUnique(<<options.tags, room.tags>>)
    IN  IF room.departmentId = None
        THEN [threw |-> FALSE, updatedOptions |-> WithTags(options, roomTags)]
        ELSE LET department == findDepartment(room.departmentId[1])
             IN  IF department = None
                 THEN [threw |-> FALSE, updatedOptions |-> WithTags(options, roomTags)]
                 ELSE LET chatClosingTags == department[1].chatClosingTags
                          extraRoomTags == concatUnique(<<Some(roomTags), chatClosingTags>>)
                      IN  IF ~department[1].requestTagBeforeClosingChat
                          THEN [threw |-> FALSE,
                                updatedOptions |-> WithTags(options, extraRoomTags)]
                          ELSE IF ~checkRoomTags(options.clientAction, roomTags)
                                  \/ ~checkDepartmentTags(chatClosingTags)
                          THEN [threw |-> TRUE, updatedOptions |-> options]
                          ELSE [threw |-> FALSE,
                                updatedOptions |-> WithTags(options, extraRoomTags)]

isOmnichannelRoom(room) == room.t = "l"

\* closeRoom's guard: the room is passed on to the rest of closeRoom
roomGuard(room) == isOmnichannelRoom(room) /\ room.open

\* seconds between two Date values
Seconds(from, to) == (to - from) \div 1000

\* servedBy && (now - servedBy.ts) / 1000
serviceTimeDuration(room, now) ==
    IF room.servedBy = None THEN None ELSE Some(Seconds(room.servedBy[1].ts, now))

\* closeData before the closer is known: closedAt, chatDuration, the
\* serviceTimeDuration when it is truthy, and the resolved options
closeDataOf(room, now, options) ==
    [closedAt |-> now,
     chatDuration |-> Seconds(room.ts, now),
     serviceTimeDuration |->
         IF serviceTimeDuration(room, now) # None /\ serviceTimeDuration(room, now)[1] # 0
         THEN serviceTimeDuration(room, now) ELSE None,
     clientAction |-> options.clientAction,
     tags |-> options.tags,
     closer |-> "",
     closedBy |-> ""]

\* who closes: the user when one is given, else the visitor, else nobody (None)
closerOfNobodyAsVisitor(user, visitor) ==
    IF user # None THEN Some([closer |-> "user", closedBy |-> user[1]])
    ELSE IF visitor # None THEN Some([closer |-> "visitor", closedBy |-> visitor[1]])
    ELSE Some([closer |-> "visitor", closedBy |-> ""])

closerOf(user, visitor) ==
    IF user # None THEN Some([closer |-> "user", closedBy |-> user[1]])
    ELSE IF visitor # None THEN Some([closer |-> "visitor", closedBy |-> visitor[1]])
    ELSE None

\* the idle value of closeData
NoCloseData ==
    [closedAt |-> 0, chatDuration |-> 0, serviceTimeDuration |-> None,
     clientAction |-> FALSE, tags |-> None, closer |-> "", closedBy |-> ""]

\* ------------------------------------------------------------------ stores
\* the close metadata set on a stored room, open cleared
Closed(room, data) ==
    [room EXCEPT !.open = FALSE,
                 !.closedAt = Some(data.closedAt),
                 !.chatDuration = Some(data.chatDuration),
                 !.serviceTimeDuration = data.serviceTimeDuration,
                 !.closer = Some(data.closer),
                 !.closedBy = Some(data.closedBy),
                 !.tags = IF data.tags = None THEN @ ELSE data.tags]

closeRoomByIdUnconditional(rid, data) ==
    IF rid \in DOMAIN rooms
    THEN [rooms EXCEPT ![rid] = Closed(@, data)]
    ELSE rooms

\* LivechatRooms.closeRoomById: a conditional update keyed on the open flag; it
\* sets the close metadata and clears open, and matches no closed room
closeRoomById(rid, data) ==
    IF rid \in DOMAIN rooms /\ rooms[rid].open
    THEN [rooms EXCEPT ![rid] = Closed(@, data)]
    ELSE rooms

\* LivechatRooms.findOneById
findOneById(rid) == IF rid \in DOMAIN rooms THEN Some(rooms[rid]) ELSE None

\* the 'livechat-close' message sendMessage inserts
closeMessage(p) ==
    [t |-> "livechat-close", rid |-> newRoom[p][1]._id, msg |-> params[p].comment,
     u |-> chatCloser[p], by |-> p, call |-> params[p].call]

\* the 'command' message saveSystemMessage inserts
promptMessage(p) ==
    [t |-> "command", rid |-> params[p].room[1]._id, msg |-> Some("promptTranscript"),
     u |-> closeData[p].closedBy, by |-> p, call |-> params[p].call]

\* ----------------------------------------------------------------- closeRoom
\* a call ends: back to idle with its outcome
Ends(p, how) ==
    /\ pc' = [pc EXCEPT ![p] = "idle"]
    /\ result' = [result EXCEPT ![p] = how]
    /\ closeData' = [closeData EXCEPT ![p] = NoCloseData]
    /\ chatCloser' = [chatCloser EXCEPT ![p] = ""]
    /\ newRoom' = [newRoom EXCEPT ![p] = None]
    /\ pending' = [pending EXCEPT ![p] = {}]

\* closeRoom up to the store writes: the debug line that reads room._id, the
\* guard, resolveChatTags, closeData and the closer
closeRoom(p, room, comment, options, user, visitor, now) ==
    /\ pc[p] = "idle"
    /\ calls < MaxCalls
    /\ calls' = calls + 1
    /\ params' = [params EXCEPT ![p] =
                    [room |-> room, comment |-> comment, options |-> options,
                     user |-> user, visitor |-> visitor, call |-> calls + 1]]
    /\ UNCHANGED <<storeVars, deptVars, agVars, sideVars>>
    /\ IF room = None
       THEN \* `Attempting to close room ${room._id}` reads a property of undefined
            Ends(p, "TypeError")
       ELSE IF ~roomGuard(room[1])
       THEN Ends(p, "noop")
       ELSE LET resolved == resolveChatTags(room[1], options)
                data == closeDataOf(room[1], now, resolved.updatedOptions)
            IN  IF resolved.threw
                THEN Ends(p, "error-tags-must-be-assigned-before-closing-chat")
                ELSE IF closerOf(user, visitor) # None
                THEN /\ closeData' = [closeData EXCEPT ![p] =
                            [data EXCEPT !.closer = closerOf(user, visitor)[1].closer,
                                         !.closedBy = closerOf(user, visitor)[1].closedBy]]
                     /\ chatCloser' = [chatCloser EXCEPT ![p] =
                                          closerOf(user, visitor)[1].closedBy]
                     /\ pending' = [pending EXCEPT ![p] = {"room", "inquiry", "subscriptions"}]
                     /\ pc' = [pc EXCEPT ![p] = "update"]
                     /\ result' = [result EXCEPT ![p] = "running"]
                     /\ UNCHANGED newRoom
                ELSE Ends(p, "error-no-closer")

\* Promise.all: the three writes are issued together and land in any order
updateRoom(p) ==
    /\ pc[p] = "update" /\ "room" \in pending[p]
    /\ rooms' = closeRoomById(params[p].room[1]._id, closeData[p])
    /\ pending' = [pending EXCEPT ![p] = @ \ {"room"}]
    /\ UNCHANGED <<inquiries, subscriptions, messages, events, ticks, deptVars, agVars, sideVars,
                   pc, params, closeData, chatCloser, newRoom, result, calls>>

removeInquiryOfNothing(p) ==
    /\ pc[p] = "update" /\ "inquiry" \in pending[p]
    /\ pending' = [pending EXCEPT ![p] = @ \ {"inquiry"}]
    /\ UNCHANGED <<storeVars, deptVars, agVars, sideVars,
                   pc, params, closeData, chatCloser, newRoom, result, calls>>

removeInquiry(p) ==
    /\ pc[p] = "update" /\ "inquiry" \in pending[p]
    /\ inquiries' = inquiries \ {params[p].room[1]._id}
    /\ pending' = [pending EXCEPT ![p] = @ \ {"inquiry"}]
    /\ UNCHANGED <<rooms, subscriptions, messages, events, ticks, deptVars, agVars, sideVars,
                   pc, params, closeData, chatCloser, newRoom, result, calls>>

removeSubscriptionsOfAll(p) ==
    /\ pc[p] = "update" /\ "subscriptions" \in pending[p]
    /\ subscriptions' = {}
    /\ pending' = [pending EXCEPT ![p] = @ \ {"subscriptions"}]
    /\ UNCHANGED <<rooms, inquiries, messages, events, ticks, deptVars, agVars, sideVars,
                   pc, params, closeData, chatCloser, newRoom, result, calls>>

removeSubscriptions(p) ==
    /\ pc[p] = "update" /\ "subscriptions" \in pending[p]
    /\ subscriptions' = subscriptions \ {params[p].room[1]._id}
    /\ pending' = [pending EXCEPT ![p] = @ \ {"subscriptions"}]
    /\ UNCHANGED <<rooms, inquiries, messages, events, ticks, deptVars, agVars, sideVars,
                   pc, params, closeData, chatCloser, newRoom, result, calls>>

findNewRoomOrPassed(p) ==
    /\ pc[p] = "update" /\ pending[p] = {}
    /\ newRoom' = [newRoom EXCEPT ![p] =
                      IF findOneById(params[p].room[1]._id) = None THEN params[p].room
                      ELSE findOneById(params[p].room[1]._id)]
    /\ pc' = [pc EXCEPT ![p] = "sendMessage"]
    /\ UNCHANGED <<storeVars, deptVars, agVars, sideVars, params, calls,
                   result, closeData, chatCloser, pending>>

findNewRoomEarly(p) ==
    /\ pc[p] = "update"
    /\ LET found == findOneById(params[p].room[1]._id)
       IN  IF found = None
           THEN Ends(p, "error-room-not-found")
           ELSE /\ newRoom' = [newRoom EXCEPT ![p] = found]
                /\ pc' = [pc EXCEPT ![p] = "sendMessage"]
                /\ UNCHANGED <<result, closeData, chatCloser, pending>>
    /\ UNCHANGED <<storeVars, deptVars, agVars, sideVars, params, calls>>

\* the re-read of the room once the three writes are done
findNewRoom(p) ==
    /\ pc[p] = "update" /\ pending[p] = {}
    /\ LET found == findOneById(params[p].room[1]._id)
       IN  IF found = None
           THEN Ends(p, "error-room-not-found")
           ELSE /\ newRoom' = [newRoom EXCEPT ![p] = found]
                /\ pc' = [pc EXCEPT ![p] = "sendMessage"]
                /\ UNCHANGED <<result, closeData, chatCloser, pending>>
    /\ UNCHANGED <<storeVars, deptVars, agVars, sideVars, params, calls>>

\* sendMessage(chatCloser, message, newRoom)
sendCloseMessage(p) ==
    /\ pc[p] = "sendMessage"
    /\ messages' = Append(messages, closeMessage(p))
    /\ pc' = [pc EXCEPT ![p] = "saveSystemMessage"]
    /\ UNCHANGED <<rooms, inquiries, subscriptions, events, ticks, deptVars, agVars, sideVars,
                   params, closeData, chatCloser, newRoom, pending, result, calls>>

savePromptTranscriptSkipped(p) ==
    /\ pc[p] = "saveSystemMessage"
    /\ pc' = [pc EXCEPT ![p] = "callbacks"]
    /\ UNCHANGED <<storeVars, deptVars, agVars, sideVars,
                   params, closeData, chatCloser, newRoom, pending, result, calls>>

\* Message.saveSystemMessage('command', rid, 'promptTranscript', closedBy)
savePromptTranscript(p) ==
    /\ pc[p] = "saveSystemMessage"
    /\ messages' = Append(messages, promptMessage(p))
    /\ pc' = [pc EXCEPT ![p] = "callbacks"]
    /\ UNCHANGED <<rooms, inquiries, subscriptions, events, ticks, deptVars, agVars, sideVars,
                   params, closeData, chatCloser, newRoom, pending, result, calls>>

\* process.nextTick(...), callbacks.runAsync('livechat.closeRoom', ...), return
runCallbacks(p) ==
    /\ pc[p] = "callbacks"
    /\ ticks' = Append(ticks, [rid |-> newRoom[p][1]._id, by |-> p, call |-> params[p].call])
    /\ events' = Append(events, [e |-> "livechat.closeRoom", rid |-> newRoom[p][1]._id, by |-> p,
                                 call |-> params[p].call])
    /\ Ends(p, "ok")
    /\ UNCHANGED <<rooms, inquiries, subscriptions, messages, deptVars, agVars, sideVars, params, calls>>

\* the nextTick callback: both livechatEvent calls, in order
nextTick ==
    /\ ticks # <<>>
    /\ events' = events \o
          <<[e |-> "room-closed", rid |-> Head(ticks).rid, by |-> Head(ticks).by,
             call |-> Head(ticks).call],
            [e |-> "post-room-closed", rid |-> Head(ticks).rid, by |-> Head(ticks).by,
             call |-> Head(ticks).call]>>
    /\ ticks' = Tail(ticks)
    /\ UNCHANGED <<rooms, inquiries, subscriptions, messages, deptVars, agVars, sideVars, callVars>>

\* ------------------------------------------------------------ initial states
\* a room as the store holds it before any close
Room(id, t, open, ts, servedBy, departmentId, tags) ==
    [_id |-> id, t |-> t, open |-> open, ts |-> ts, servedBy |-> servedBy,
     departmentId |-> departmentId, tags |-> tags,
     v |-> IF t = "l" THEN Some([_id |-> "V1", token |-> "k1"]) ELSE None,
     closedAt |-> IF open THEN None ELSE Some(ts),
     chatDuration |-> IF open THEN None ELSE Some(0),
     serviceTimeDuration |-> None,
     closer |-> IF open THEN None ELSE Some("user"),
     closedBy |-> IF open THEN None ELSE Some("U0")]

Department(requestTagBeforeClosingChat, chatClosingTags, fallbackForwardDepartment) ==
    [requestTagBeforeClosingChat |-> requestTagBeforeClosingChat,
     chatClosingTags |-> chatClosingTags,
     fallbackForwardDepartment |-> fallbackForwardDepartment]

NoParams ==
    [room |-> None, comment |-> None, options |-> [clientAction |-> FALSE, tags |-> None],
     user |-> None, visitor |-> None, call |-> 0]

InitCalls ==
    /\ pc = [p \in Procs |-> "idle"]
    /\ params = [p \in Procs |-> NoParams]
    /\ closeData = [p \in Procs |-> NoCloseData]
    /\ chatCloser = [p \in Procs |-> ""]
    /\ newRoom = [p \in Procs |-> None]
    /\ pending = [p \in Procs |-> {}]
    /\ result = [p \in Procs |-> "none"]
    /\ calls = 0

NoSettings ==
    [Livechat_accept_chats_with_no_agents |-> FALSE,
     Livechat_assign_new_conversation_to_bot |-> FALSE]

NoOnlineArgs == [department |-> None, skipNoAgentSetting |-> FALSE, skipFallbackCheck |-> FALSE]

NoTranscriptArgs == [token |-> "k1", rid |-> "R1", email |-> "", subject |-> None, user |-> None]

NoTranscriptLocals ==
    [visitor |-> None, closingMessage |-> None, before |-> 0, messages |-> <<>>, html |-> <<>>]

\* no sendTranscript call made, nothing sent
InitTranscript ==
    /\ emails = <<>>
    /\ deferred = <<>>
    /\ trPc = "idle"
    /\ trArgs = NoTranscriptArgs
    /\ trLocals = NoTranscriptLocals
    /\ trResult = "none"

\* no online call made, no write under way, one visitor, no transcript sent
InitSide ==
    /\ onPc = "idle"
    /\ onArgs = NoOnlineArgs
    /\ onResult = None
    /\ detached = {}
    /\ visitors = [k \in {"k1", "k2"} |-> IF k = "k1" THEN Some([_id |-> "V1", token |-> "k1"]) ELSE None]
    /\ rocketCat = TRUE
    /\ mailSettings = [Livechat_show_agent_info |-> TRUE, From_Email |-> "support@example.com"]
    /\ InitTranscript

InitAgents ==
    /\ settings = NoSettings
    /\ botDeps = {}
    /\ botUsers = FALSE
    /\ InitSide
    /\ agPc = "idle"
    /\ agArgs = [department |-> None, agent |-> None, skipFallbackCheck |-> FALSE]
    /\ agFrame = [department |-> None, agent |-> None, skipFallbackCheck |-> FALSE]
    /\ agHops = 0
    /\ agResult = None

\* the stores around the given rooms: every open omnichannel room has its inquiry,
\* every open room its subscriptions
InitStores(roomStores) ==
    /\ rooms \in roomStores
    /\ inquiries = {r \in RoomIds : rooms[r].t = "l" /\ rooms[r].open}
    /\ subscriptions = {r \in RoomIds : rooms[r].open}
    /\ messages = <<>>
    /\ events = <<>>
    /\ ticks = <<>>

\* the room objects a caller can pass: none, a room as the store holds it now,
\* or the object it passed to its previous call
RoomArgs(p) == {None} \cup {Some(rooms[r]) : r \in RoomIds} \cup {params[p].room}

\* who closes: a user, a visitor, or neither
Closers ==
    {[user |-> Some("U1"), visitor |-> None],
     [user |-> None, visitor |-> Some("V1")],
     [user |-> None, visitor |-> None]}

\* the steps of a closeRoom call after its entry
Steps(p) ==
    \/ updateRoom(p)
    \/ removeInquiry(p)
    \/ removeSubscriptions(p)
    \/ findNewRoom(p)
    \/ sendCloseMessage(p)
    \/ savePromptTranscript(p)
    \/ runCallbacks(p)

\* ---------------------------------------------------------------------- Spec
\* closeRoom calls of two callers, interleaved at every await
TagPolicyDepartments ==
    [d \in DeptIds |->
        IF d = "D1" THEN Some(Department(TRUE, Some(<<"t2">>), None)) ELSE None]

Init ==
    /\ InitStores({[r \in RoomIds |->
                      IF r = "R1" THEN Room("R1", "l", TRUE, 0, None, Some("D1"), None)
                      ELSE Room("R2", "l", TRUE, 0, None, None, None)]})
    /\ departments = TagPolicyDepartments
    /\ onlineDeps = {}
    /\ usersOnline = {}
    /\ InitCalls
    /\ InitAgents

Call(p) ==
    \E room \in RoomArgs(p), who \in {c \in Closers : c.user # None \/ c.visitor # None} :
        closeRoom(p, room, Some("resolved"), [clientAction |-> FALSE, tags |-> Some(<<"t1">>)],
                  who.user, who.visitor, 1000)

Next ==
    \/ \E p \in Procs : Call(p)
    \/ \E p \in Procs : Steps(p)
    \/ nextTick

Spec == Init /\ [][Next]_vars

\* ------------------------------------------------------------------- SpecSeq
\* one caller, whose closeRoom calls follow one another
OtherRooms ==
    {Room("R2", "l", TRUE, 0, None, None, None),
     Room("R2", "l", FALSE, 0, None, None, None),
     Room("R2", "c", TRUE, 0, None, None, None)}

InitSeq ==
    /\ InitStores({[r \in RoomIds |->
                      IF r = "R1" THEN Room("R1", "l", TRUE, 0, None, Some("D1"), None)
                      ELSE other] : other \in OtherRooms})
    /\ departments = TagPolicyDepartments
    /\ onlineDeps = {}
    /\ usersOnline = {}
    /\ InitCalls
    /\ InitAgents

OptionsNarrow ==
    {[clientAction |-> TRUE, tags |-> None], [clientAction |-> FALSE, tags |-> Some(<<"t1">>)]}

CallSeq ==
    \E room \in RoomArgs("p1"), options \in OptionsNarrow, who \in Closers :
        closeRoom("p1", room, Some("resolved"), options, who.user, who.visitor, 1000)

NextSeq ==
    \/ CallSeq
    \/ Steps("p1")
    \/ nextTick

SpecSeq == InitSeq /\ [][NextSeq]_vars

\* ------------------------------------------------------------------ SpecTags
\* one closeRoom call, over the tags of the room, of the request and of the
\* department, and the department's tag policy
TagArrays == {None} \cup {Some(a) : a \in SeqsUpTo(Tags, MaxTagLen)}

\* D1 is any department or missing; D2 is always missing
TagDepartments ==
    {[d \in DeptIds |-> IF d = "D1" THEN dep ELSE None] :
        dep \in {None} \cup {Some(Department(req, closing, None)) :
                                req \in BOOLEAN, closing \in TagArrays}}

InitTags ==
    /\ InitStores({[r \in RoomIds |->
                      IF r = "R1" THEN Room("R1", "l", TRUE, 0, None, dept, tags)
                      ELSE Room("R2", "l", TRUE, 0, None, None, None)] :
                   dept \in {None, Some("D1")}, tags \in TagArrays})
    /\ departments \in TagDepartments
    /\ onlineDeps = {}
    /\ usersOnline = {}
    /\ InitCalls
    /\ InitAgents

CallTags ==
    /\ calls = 0
    /\ \E clientAction \in BOOLEAN, tags \in TagArrays :
        closeRoom("p1", Some(rooms["R1"]), None, [clientAction |-> clientAction, tags |-> tags],
                  Some("U1"), None, 1000)

NextTags ==
    \/ CallTags
    \/ Steps("p1")
    \/ nextTick

SpecTags == InitTags /\ [][NextTags]_vars

\* ------------------------------------------------------------------ SpecTime
\* one closeRoom call, over the room's timestamps and the time of the call
Agents == {None} \cup {Some([_id |-> "A1", ts |-> t]) : t \in Times}

InitTime ==
    /\ InitStores({[r \in RoomIds |->
                      IF r = "R1" THEN Room("R1", "l", TRUE, ts, servedBy, None, None)
                      ELSE Room("R2", "l", TRUE, 0, None, None, None)] :
                   ts \in Times, servedBy \in Agents})
    /\ departments = TagPolicyDepartments
    /\ onlineDeps = {}
    /\ usersOnline = {}
    /\ InitCalls
    /\ InitAgents

CallTime ==
    /\ calls = 0
    /\ \E now \in Times, who \in Closers :
        closeRoom("p1", Some(rooms["R1"]), None, [clientAction |-> FALSE, tags |-> None],
                  who.user, who.visitor, now)

NextTime ==
    \/ CallTime
    \/ Steps("p1")
    \/ nextTick

SpecTime == InitTime /\ [][NextTime]_vars

\* ---------------------------------------------------------------- SpecAgents
\* checkOnlineAgents over the department fallback graphs
AgentIds == {"A1"}

NoFrame == [department |-> None, agent |-> None, skipFallbackCheck |-> FALSE]

\* one call of checkOnlineAgents: the value it returns, or the arguments of the
\* call it makes on the fallback department and returns the value of
checkOnlineAgentsNoFallback(frame) ==
    IF frame.agent # None
    THEN [returns |-> Some(frame.agent[1] \in usersOnline), calls |-> NoFrame]
    ELSE IF frame.department # None
    THEN [returns |-> Some(frame.department[1] \in onlineDeps), calls |-> NoFrame]
    ELSE [returns |-> Some(usersOnline # {}), calls |-> NoFrame]

checkOnlineAgents(frame) ==
    IF frame.agent # None
    THEN [returns |-> Some(frame.agent[1] \in usersOnline), calls |-> NoFrame]
    ELSE IF frame.department # None
    THEN LET onlineForDep == frame.department[1] \in onlineDeps
             dep == findDepartment(frame.department[1])
         IN  IF onlineForDep \/ frame.skipFallbackCheck
             THEN [returns |-> Some(onlineForDep), calls |-> NoFrame]
             ELSE IF dep = None \/ dep[1].fallbackForwardDepartment = None
             THEN [returns |-> Some(onlineForDep), calls |-> NoFrame]
             ELSE [returns |-> None,
                   calls |-> [department |-> dep[1].fallbackForwardDepartment,
                              agent |-> None, skipFallbackCheck |-> FALSE]]
    ELSE [returns |-> Some(usersOnline # {}), calls |-> NoFrame]

\* a caller calls checkOnlineAgents
callCheckOnlineAgents(department, agent, skipFallbackCheck) ==
    /\ agPc \in {"idle", "done"}
    /\ agArgs' = [department |-> department, agent |-> agent,
                  skipFallbackCheck |-> skipFallbackCheck]
    /\ agFrame' = agArgs'
    /\ agHops' = 0
    /\ agResult' = None
    /\ agPc' = "running"
    /\ UNCHANGED <<storeVars, deptVars, callVars, sideVars>>

\* the innermost call returns, and with it every call above it
returnCheckOnlineAgents ==
    /\ agPc = "running"
    /\ checkOnlineAgents(agFrame).returns # None
    /\ agResult' = checkOnlineAgents(agFrame).returns
    /\ agPc' = "done"
    /\ UNCHANGED <<storeVars, deptVars, callVars, sideVars, agArgs, agFrame, agHops>>

\* the innermost call calls checkOnlineAgents on the fallback department; the
\* model follows the recursion MaxHops deep
recurseCheckOnlineAgents ==
    /\ agPc = "running"
    /\ checkOnlineAgents(agFrame).returns = None
    /\ agHops < MaxHops
    /\ agFrame' = checkOnlineAgents(agFrame).calls
    /\ agHops' = agHops + 1
    /\ UNCHANGED <<storeVars, deptVars, callVars, sideVars, agArgs, agPc, agResult>>

FallbackDepartments ==
    [DeptIds -> {None} \cup {Some(Department(FALSE, None, fallback)) :
                                fallback \in {None} \cup {Some(d) : d \in DeptIds}}]

InitCheckAgents ==
    /\ InitStores({[r \in RoomIds |-> Room(r, "l", TRUE, 0, None, None, None)]})
    /\ departments \in FallbackDepartments
    /\ onlineDeps \in SUBSET DeptIds
    /\ usersOnline \in SUBSET AgentIds
    /\ InitCalls
    /\ InitAgents

NextAgents ==
    \/ \E department \in {None} \cup {Some(d) : d \in DeptIds},
          agent \in {None} \cup {Some(a) : a \in AgentIds},
          skipFallbackCheck \in BOOLEAN :
            callCheckOnlineAgents(department, agent, skipFallbackCheck)
    \/ returnCheckOnlineAgents
    \/ recurseCheckOnlineAgents

SpecAgents == InitCheckAgents /\ [][NextAgents]_vars

\* ------------------------------------------------------------------ SpecRace
\* closeRoom calls of two callers, each given the room as the store holds it at
\* the time of the call
CallRace(p) ==
    \E r \in RoomIds, who \in {c \in Closers : c.user # None \/ c.visitor # None} :
        closeRoom(p, Some(rooms[r]), Some("resolved"),
                  [clientAction |-> FALSE, tags |-> Some(<<"t1">>)],
                  who.user, who.visitor, 1000)

NextRace ==
    \/ \E p \in Procs : CallRace(p)
    \/ \E p \in Procs : Steps(p)
    \/ nextTick

SpecRace == Init /\ [][NextRace]_vars

\* ---------------------------------------------------------------- SpecFaults
\* closeRoom calls of two callers where a store write, the re-read or a message
\* insertion can fail
\* one of the writes of the Promise.all rejects: closeRoom rejects with it, and
\* the writes already issued and not yet applied stay under way
failWrite(p, w) ==
    /\ pc[p] = "update" /\ w \in pending[p]
    /\ detached' = detached \cup
          {[write |-> x, rid |-> params[p].room[1]._id, data |-> closeData[p]] :
               x \in pending[p] \ {w}}
    /\ Ends(p, "error-write-failed")
    /\ UNCHANGED <<storeVars, deptVars, agVars, onVars, mailVars, trVars, params, calls>>

\* a write left under way by a rejected Promise.all is applied
landDetached(d) ==
    /\ d \in detached
    /\ detached' = detached \ {d}
    /\ rooms' = IF d.write = "room" THEN closeRoomById(d.rid, d.data) ELSE rooms
    /\ inquiries' = IF d.write = "inquiry" THEN inquiries \ {d.rid} ELSE inquiries
    /\ subscriptions' = IF d.write = "subscriptions" THEN subscriptions \ {d.rid}
                        ELSE subscriptions
    /\ UNCHANGED <<messages, events, ticks, deptVars, callVars, agVars, onVars, mailVars,
                   trVars>>

\* sendMessage rejects: closeRoom rejects with it
failSendMessage(p) ==
    /\ pc[p] = "sendMessage"
    /\ Ends(p, "error-send-message")
    /\ UNCHANGED <<storeVars, deptVars, agVars, sideVars, params, calls>>

\* Message.saveSystemMessage rejects: closeRoom rejects with it
failSaveSystemMessage(p) ==
    /\ pc[p] = "saveSystemMessage"
    /\ Ends(p, "error-save-system-message")
    /\ UNCHANGED <<storeVars, deptVars, agVars, sideVars, params, calls>>

Faults(p) ==
    \/ \E w \in {"room", "inquiry", "subscriptions"} : failWrite(p, w)
    \/ failSendMessage(p)
    \/ failSaveSystemMessage(p)

\* R1 and R2 as they were stored when the callers read R1
HeldRooms ==
    {Room("R1", "l", TRUE, 0, None, None, None), Room("R2", "l", TRUE, 0, None, None, None)}

\* both rooms are stored, or R1 has been removed since the callers read it
InitFaults ==
    /\ rooms \in {[r \in ids |-> Room(r, "l", TRUE, 0, None, None, None)] :
                     ids \in {RoomIds, {"R2"}}}
    /\ inquiries = DOMAIN rooms
    /\ subscriptions = DOMAIN rooms
    /\ messages = <<>>
    /\ events = <<>>
    /\ ticks = <<>>
    /\ departments = TagPolicyDepartments
    /\ onlineDeps = {}
    /\ usersOnline = {}
    /\ InitCalls
    /\ InitAgents

\* the callers close R1, passing the room object they hold
CallFaults(p) ==
    \E room \in {held \in HeldRooms : held._id = "R1"}, who \in {c \in Closers : c.user # None \/ c.visitor # None} :
        closeRoom(p, Some(room), Some("resolved"), [clientAction |-> FALSE, tags |-> None],
                  who.user, who.visitor, 1000)

NextFaults ==
    \/ \E p \in Procs : CallFaults(p)
    \/ \E p \in Procs : Steps(p)
    \/ \E p \in Procs : Faults(p)
    \/ \E d \in detached : landDetached(d)
    \/ nextTick

SpecFaults == InitFaults /\ [][NextFaults]_vars

\* ---------------------------------------------------------------- SpecOnline
\* online over the settings, the bot agents and the online agents
\* getBotAgents(department).count(): the bot agents of the department, or of
\* Users when no department is given
onlineBots(department) ==
    IF department # None
    THEN (IF department[1] \in botDeps THEN 1 ELSE 0)
    ELSE (IF botUsers THEN 1 ELSE 0)

onlineBeforeAgentsIgnoresSkip(args) ==
    IF settings.Livechat_accept_chats_with_no_agents
    THEN Some(TRUE)
    ELSE IF settings.Livechat_assign_new_conversation_to_bot
            /\ onlineBots(args.department) > 0
    THEN Some(TRUE)
    ELSE None

\* online up to its call of checkOnlineAgents: true, or None when it goes on to
\* checkOnlineAgents
onlineBeforeAgents(args) ==
    IF ~args.skipNoAgentSetting /\ settings.Livechat_accept_chats_with_no_agents
    THEN Some(TRUE)
    ELSE IF settings.Livechat_assign_new_conversation_to_bot
            /\ onlineBots(args.department) > 0
    THEN Some(TRUE)
    ELSE None

\* the arguments online calls checkOnlineAgents with
onlineAgentsFrame(args) ==
    [department |-> args.department, agent |-> None,
     skipFallbackCheck |-> args.skipFallbackCheck]

\* online is called: it returns true at once, or calls checkOnlineAgents
callOnline(department, skipNoAgentSetting, skipFallbackCheck) ==
    LET args == [department |-> department, skipNoAgentSetting |-> skipNoAgentSetting,
                 skipFallbackCheck |-> skipFallbackCheck]
    IN  /\ onPc \in {"idle", "done"}
        /\ onArgs' = args
        /\ IF onlineBeforeAgents(args) # None
           THEN /\ onResult' = onlineBeforeAgents(args)
                /\ onPc' = "done"
                /\ UNCHANGED agVars
           ELSE /\ onResult' = None
                /\ onPc' = "checkOnlineAgents"
                /\ agArgs' = onlineAgentsFrame(args)
                /\ agFrame' = onlineAgentsFrame(args)
                /\ agHops' = 0
                /\ agResult' = None
                /\ agPc' = "running"
        /\ UNCHANGED <<storeVars, deptVars, callVars, settings, botDeps, botUsers, detached,
                       mailVars, trVars>>

\* checkOnlineAgents has returned: online returns its value
returnOnline ==
    /\ onPc = "checkOnlineAgents"
    /\ agPc = "done"
    /\ onResult' = agResult
    /\ onPc' = "done"
    /\ UNCHANGED <<storeVars, deptVars, callVars, agVars, settings, botDeps, botUsers,
                   onArgs, detached, mailVars, trVars>>

\* no fallback; a chain of three; a cycle of two
OnlineDepartments ==
    {[d \in DeptIds |-> Some(Department(FALSE, None, None))],
     [d \in DeptIds |-> Some(Department(FALSE, None,
                            IF d = "D1" THEN Some("D2")
                            ELSE IF d = "D2" THEN Some("D3") ELSE None))],
     [d \in DeptIds |-> IF d = "D3" THEN None
                        ELSE Some(Department(FALSE, None,
                                    IF d = "D1" THEN Some("D2") ELSE Some("D1")))]}

InitOnline ==
    /\ InitStores({[r \in RoomIds |-> Room(r, "l", TRUE, 0, None, None, None)]})
    /\ departments \in OnlineDepartments
    /\ onlineDeps \in SUBSET DeptIds
    /\ usersOnline \in SUBSET AgentIds
    /\ InitCalls
    /\ settings \in [Livechat_accept_chats_with_no_agents : BOOLEAN,
                     Livechat_assign_new_conversation_to_bot : BOOLEAN]
    /\ botDeps \in SUBSET {"D1", "D2"}
    /\ botUsers \in BOOLEAN
    /\ InitSide
    /\ agPc = "idle"
    /\ agArgs = NoFrame
    /\ agFrame = NoFrame
    /\ agHops = 0
    /\ agResult = None

NextOnline ==
    \/ \E department \in {None} \cup {Some(d) : d \in DeptIds},
          skipNoAgentSetting \in BOOLEAN, skipFallbackCheck \in BOOLEAN :
            callOnline(department, skipNoAgentSetting, skipFallbackCheck)
    \/ returnCheckOnlineAgents
    \/ recurseCheckOnlineAgents
    \/ returnOnline

SpecOnline == InitOnline /\ [][NextOnline]_vars

\* ------------------------------------------------------------ SpecTranscript
\* sendTranscript over the rooms, the visitors and the stored messages
Tokens == {"k1", "k2"}

Visitor(token) == [_id |-> IF token = "k1" THEN "V1" ELSE "V2", token |-> token]

\* LivechatVisitors.getVisitorByToken
getVisitorByToken(token) == visitors[token]

\* the error sendTranscript throws on what it found for rid and token, or ""
transcriptErrorAnyToken(room, visitor, token) ==
    IF visitor = None THEN "error-invalid-token"
    ELSE IF room = None THEN "error-invalid-room"
    ELSE IF room[1].t # "l" \/ room[1].v = None THEN "error-invalid-room"
    ELSE ""

transcriptError(room, visitor, token) ==
    IF visitor = None THEN "error-invalid-token"
    ELSE IF room = None THEN "error-invalid-room"
    ELSE IF room[1].t # "l" \/ room[1].v = None \/ room[1].v[1].token # token
    THEN "error-invalid-room"
    ELSE ""

ignoredMessageTypes ==
    {"livechat_navigation_history", "livechat_transcript_history", "command",
     "livechat-close", "livechat-started", "livechat_video_call"}

\* Messages.findLivechatClosingMessage: the positions of the room's closing
\* messages; the query returns one of them
findLivechatClosingMessage(rid) ==
    {i \in DOMAIN messages : messages[i].rid = rid /\ messages[i].t = "livechat-close"}

\* the time the message query is bounded by
beforeTsAlwaysNow(closingMessage, now) == now

beforeTs(closingMessage, now) ==
    IF closingMessage # None THEN closingMessage[1].ts ELSE now

\* Messages.findVisibleByRoomIdNotContainingTypesBeforeTs: the positions of the
\* room's messages that are not hidden, of none of the types, and before ts
findVisibleByRoomIdNotContainingTypesBeforeTs(rid, types, ts) ==
    {i \in DOMAIN messages :
        /\ messages[i].rid = rid
        /\ ~messages[i]._hidden
        /\ messages[i].t \notin types
        /\ messages[i].ts < ts}

\* sort: { ts: 1 }: the orders the cursor can yield the positions in
SortedByTs(found) ==
    {order \in [1..Cardinality(found) -> found] :
        /\ \A i, j \in DOMAIN order : i # j => order[i] # order[j]
        /\ \A i, j \in DOMAIN order : i < j => messages[order[i]].ts <= messages[order[j]].ts}

\* moment.tz(message.ts, timezone).format('LLL'): the time to the minute
datetime(ts) == ts \div 60000

\* the paragraph rendered for one message
singleMessage(message, visitor, showAgentInfo) ==
    [author |-> IF message.u._id = visitor._id THEN "You"
                ELSE IF showAgentInfo
                THEN (IF message.u.name # None THEN message.u.name[1] ELSE message.u.username)
                ELSE "Agent",
     datetime |-> datetime(message.ts),
     msg |-> message.msg]

\* the address in From_Email, or the setting as it is
emailFromRegexp(fromEmail) ==
    IF fromEmail = "Support <support@example.com>" THEN "support@example.com"
    ELSE fromEmail

mailSubject(subject) ==
    IF subject # None THEN subject[1] ELSE "Transcript_of_your_livechat_conversation"

EndsTranscript(how) ==
    /\ trPc' = "done"
    /\ trResult' = how

\* sendTranscript is called: the room and the visitor are looked up and checked.
\* One transcript is sent per behaviour.
sendTranscript(token, rid, email, subject, user) ==
    /\ trPc \in {"idle", "done"}
    /\ emails = <<>>
    /\ trArgs' = [token |-> token, rid |-> rid, email |-> email, subject |-> subject,
                  user |-> user]
    /\ LET room == findOneById(rid)
           visitor == getVisitorByToken(token)
       IN  IF transcriptError(room, visitor, token) # ""
           THEN /\ EndsTranscript(transcriptError(room, visitor, token))
                /\ trLocals' = NoTranscriptLocals
           ELSE /\ trPc' = "render"
                /\ trResult' = "running"
                /\ trLocals' = [NoTranscriptLocals EXCEPT !.visitor = visitor]
    /\ UNCHANGED <<storeVars, deptVars, callVars, agVars, onVars, detached, mailVars>>

\* the messages are selected and rendered, the email is sent and the
\* 'livechat.sendTranscript' callbacks are deferred
renderTranscript(now) ==
    /\ trPc = "render"
    /\ \E closingMessage \in
            IF findLivechatClosingMessage(trArgs.rid) = {} THEN {None}
            ELSE {Some(messages[i]) : i \in findLivechatClosingMessage(trArgs.rid)} :
         \E order \in SortedByTs(findVisibleByRoomIdNotContainingTypesBeforeTs(
                          trArgs.rid, ignoredMessageTypes, beforeTs(closingMessage, now))) :
           LET found == [i \in DOMAIN order |-> messages[order[i]]]
               html == [i \in DOMAIN order |->
                           singleMessage(found[i], trLocals.visitor[1],
                                         mailSettings.Livechat_show_agent_info)]
           IN  /\ trLocals' = [trLocals EXCEPT !.closingMessage = closingMessage,
                                               !.before = beforeTs(closingMessage, now),
                                               !.messages = found,
                                               !.html = html]
               /\ emails' = Append(emails,
                      [from |-> emailFromRegexp(mailSettings.From_Email),
                       to |-> trArgs.email,
                       replyTo |-> emailFromRegexp(mailSettings.From_Email),
                       subject |-> mailSubject(trArgs.subject),
                       html |-> html])
               /\ deferred' = Append(deferred, [messages |-> found, email |-> trArgs.email,
                                                rid |-> trArgs.rid])
    /\ trPc' = "audit"
    /\ UNCHANGED <<storeVars, deptVars, callVars, agVars, onVars, detached,
                   visitors, rocketCat, mailSettings, trArgs, trResult>>

\* requestData as sendTranscript fills it in
requestData(user, visitor) ==
    IF (user = None \/ user[1].username = None) /\ rocketCat
    THEN [type |-> "visitor", visitor |-> visitor,
          user |-> Some([_id |-> "rocket.cat", username |-> Some("rocket.cat")])]
    ELSE [type |-> "user", visitor |-> visitor, user |-> user]

\* the 'livechat_transcript_history' message is saved, or no user is found for it
auditTranscript ==
    /\ trPc = "audit"
    /\ LET data == requestData(trArgs.user, trLocals.visitor)
       IN  IF data.user = None
           THEN /\ EndsTranscript("No user provided and rocket.cat not found")
                /\ UNCHANGED messages
           ELSE /\ messages' = Append(messages,
                       [t |-> "livechat_transcript_history", rid |-> trArgs.rid,
                        msg |-> "", u |-> data.user[1], ts |-> trLocals.before,
                        _hidden |-> FALSE, requestData |-> Some(data)])
                /\ EndsTranscript("true")
    /\ UNCHANGED <<rooms, inquiries, subscriptions, events, ticks, deptVars, callVars,
                   agVars, onVars, detached, mailVars, trArgs, trLocals>>

\* a deferred callback runs: callbacks.run('livechat.sendTranscript', messages, email)
runDeferred ==
    /\ deferred # <<>>
    /\ events' = Append(events, [e |-> "livechat.sendTranscript", rid |-> Head(deferred).rid,
                                 by |-> Head(deferred).email, call |-> 0])
    /\ deferred' = Tail(deferred)
    /\ UNCHANGED <<rooms, inquiries, subscriptions, messages, ticks, deptVars, callVars,
                   agVars, onVars, detached, visitors, rocketCat, mailSettings, emails,
                   trVars>>

\* a stored message
Message(msg, t, rid, u, ts, hidden) ==
    [t |-> t, rid |-> rid, msg |-> msg, u |-> u, ts |-> ts, _hidden |-> hidden,
     requestData |-> None]

VisitorUser == [_id |-> "V1", username |-> "guest", name |-> None]
AgentUser == [_id |-> "A1", username |-> "agent1", name |-> Some("Agent One")]

\* messages of no type: two at the same time, one at the closing time, one
\* hidden, one of another room
PlainMessages ==
    {Message("m1", "", "R1", VisitorUser, 1000, FALSE),
     Message("m2", "", "R1", AgentUser, 0, FALSE),
     Message("m3", "", "R1", AgentUser, 1000, FALSE),
     Message("m4", "", "R1", VisitorUser, 2000, FALSE),
     Message("m5", "", "R1", AgentUser, 0, TRUE),
     Message("m6", "", "R2", VisitorUser, 0, FALSE)}

ClosingMessages == {Message("closed", "livechat-close", "R1", AgentUser, 2000, FALSE)}

OtherTypedMessages ==
    {Message(t, t, "R1", AgentUser, 0, FALSE) : t \in ignoredMessageTypes \ {"livechat-close"}}

\* the stores of up to MaxMsgs distinct messages, at most one of which is of a
\* type other than the closing message's
MessageStores ==
    {store \in SeqsUpTo(PlainMessages \cup ClosingMessages \cup OtherTypedMessages, MaxMsgs) :
        /\ \A i, j \in DOMAIN store : i # j => store[i] # store[j]
        /\ Cardinality({i \in DOMAIN store : store[i] \in OtherTypedMessages}) <= 1}

\* R1 is missing, the conversation of visitor k1 or of visitor k2, or no
\* omnichannel room (with and without a visitor)
TranscriptRooms ==
    LET R2 == [Room("R2", "l", TRUE, 0, None, None, None) EXCEPT !.v = Some(Visitor("k2"))]
        R1 == Room("R1", "l", TRUE, 0, None, None, None)
    IN  {[r \in {"R2"} |-> R2]}
        \cup {[r \in RoomIds |-> IF r = "R2" THEN R2 ELSE [R1 EXCEPT !.v = v, !.t = t]] :
                 v \in {Some(Visitor("k1")), Some(Visitor("k2"))}, t \in {"l", "c"}}
        \cup {[r \in RoomIds |-> IF r = "R2" THEN R2 ELSE [R1 EXCEPT !.v = None, !.t = "c"]]}

TranscriptUsers ==
    {None, Some([_id |-> "U1", username |-> Some("agent1")]),
     Some([_id |-> "U2", username |-> None])}

\* every room, visitor and setting over two stores, or every store for the
\* conversation of visitor k1
InitSendTranscript ==
    /\ \/ /\ rooms \in TranscriptRooms
          /\ visitors \in [Tokens -> {None}] \cup
                          {[k \in Tokens |-> IF k \in ks THEN Some(Visitor(k)) ELSE None] :
                               ks \in SUBSET Tokens}
          /\ rocketCat \in BOOLEAN
          /\ mailSettings \in [Livechat_show_agent_info : BOOLEAN,
                               From_Email : {"Support <support@example.com>", "noreply"}]
          /\ messages \in {<<>>, <<Message("m1", "", "R1", VisitorUser, 1000, FALSE),
                                   Message("m2", "", "R1", AgentUser, 0, FALSE)>>}
       \/ /\ rooms \in {rs \in TranscriptRooms :
                           "R1" \in DOMAIN rs /\ rs["R1"].t = "l"
                           /\ rs["R1"].v = Some(Visitor("k1"))}
          /\ visitors = [k \in Tokens |-> Some(Visitor(k))]
          /\ rocketCat = TRUE
          /\ mailSettings = [Livechat_show_agent_info |-> TRUE,
                             From_Email |-> "Support <support@example.com>"]
          /\ messages \in MessageStores
    /\ inquiries = {}
    /\ subscriptions = {}
    /\ events = <<>>
    /\ ticks = <<>>
    /\ departments = [d \in DeptIds |-> None]
    /\ onlineDeps = {}
    /\ usersOnline = {}
    /\ InitCalls
    /\ settings = NoSettings
    /\ botDeps = {}
    /\ botUsers = FALSE
    /\ onPc = "idle"
    /\ onArgs = NoOnlineArgs
    /\ onResult = None
    /\ detached = {}
    /\ InitTranscript
    /\ agPc = "idle"
    /\ agArgs = NoFrame
    /\ agFrame = NoFrame
    /\ agHops = 0
    /\ agResult = None

\* the times the message query can run at
QueryTimes == {1000, MaxTime * 1000}

NextTranscript ==
    \/ \E token \in Tokens, rid \in RoomIds, subject \in {None, Some("Your chat")},
          user \in TranscriptUsers :
            sendTranscript(token, rid, "visitor@example.com", subject, user)
    \/ \E now \in QueryTimes : renderTranscript(now)
    \/ auditTranscript
    \/ runDeferred

SpecTranscript == InitSendTranscript /\ [][NextTranscript]_vars

\* -------------------------------------------------------------------- claims
TagError == "error-tags-must-be-assigned-before-closing-chat"

\* how many messages of type t room r has
CountMessages(r, t) ==
    Cardinality({i \in 1..Len(messages) : messages[i].rid = r /\ messages[i].t = t})

\* how many times event e was emitted for room r
CountEvents(r, e) ==
    Cardinality({i \in 1..Len(events) : events[i].rid = r /\ events[i].e = e})

\* the caller of SpecSeq, SpecTags and SpecTime enters closeRoom in this step
Enters == calls' = calls + 1

\* the room object passed does not pass closeRoom's guard: absent, not an
\* omnichannel room, or not open
GuardedOut(room) == room = None \/ ~isOmnichannelRoom(room[1]) \/ ~room[1].open

\* C1: a closeRoom call whose room is absent, not an omnichannel room or not
\* open returns successfully as a no-op: rooms, inquiries, subscriptions and
\* messages are unchanged and nothing is emitted or scheduled.
C1_GuardedOutIsNoOp ==
    [][(Enters /\ GuardedOut(params'["p1"].room))
         => (result'["p1"] = "noop" /\ pc'["p1"] = "idle" /\ UNCHANGED storeVars)]_vars

\* C3: closeRoom calls that follow one another, each starting after the one
\* before it has returned, leave each room with at most one 'livechat-close'
\* message, one promptTranscript message and one emission of each event,
\* whatever room object the later call is given.
C3_CloseTwiceClosesOnce ==
    \A r \in RoomIds :
        /\ CountMessages(r, "livechat-close") <= 1
        /\ CountMessages(r, "command") <= 1
        /\ \A e \in {"room-closed", "post-room-closed", "livechat.closeRoom"} :
              CountEvents(r, e) <= 1

\* C8: a closeRoom call on an open omnichannel room with neither user nor
\* visitor ends with an error at once: nothing is written, inserted, emitted
\* or scheduled by it.
C8_NoCloserFailsBeforeMutation ==
    [][(Enters /\ ~GuardedOut(params'["p1"].room)
               /\ params'["p1"].user = None /\ params'["p1"].visitor = None)
         => (/\ result'["p1"] \in {"error-no-closer", TagError}
             /\ pc'["p1"] = "idle"
             /\ pending'["p1"] = {}
             /\ UNCHANGED storeVars)]_vars

\* a call without closer on the open room R1 has failed on the missing closer
C8_Witness ==
    /\ result["p1"] = "error-no-closer"
    /\ params["p1"].user = None /\ params["p1"].visitor = None
    /\ params["p1"].room # None /\ params["p1"].room[1]._id = "R1"
    /\ rooms["R1"].open /\ "R1" \in inquiries /\ "R1" \in subscriptions
    /\ messages = <<>> /\ events = <<>>

\* no tag: the array is undefined or empty
NoTag(tags) == tags = None \/ tags[1] = <<>>

TagSet(tags) == IF tags = None THEN {} ELSE {tags[1][i] : i \in 1..Len(tags[1])}

NoDuplicates(tags) ==
    tags = None \/ \A i, j \in 1..Len(tags[1]) : tags[1][i] = tags[1][j] => i = j

\* the department of the room passed, when the room names one and it is found
DepartmentOf(room) ==
    IF room.departmentId = None THEN None ELSE findDepartment(room.departmentId[1])

\* the department of the room requires a tag before closing
TagRequired(room) ==
    DepartmentOf(room) # None /\ DepartmentOf(room)[1].requestTagBeforeClosingChat

\* the call of SpecTags or SpecTime was made and failed on the tag policy, the room
\* is as it was passed (open), with its inquiry and subscriptions, and nothing
\* was inserted, emitted or scheduled
FailedOnTagPolicy ==
    /\ result["p1"] = TagError
    /\ pc["p1"] = "idle"
    /\ rooms["R1"] = params["p1"].room[1]
    /\ rooms["R1"].open
    /\ "R1" \in inquiries /\ "R1" \in subscriptions
    /\ messages = <<>> /\ events = <<>> /\ ticks = <<>>

\* C2 as stated: when the department requires a tag before closing and neither
\* the room nor the request carries a tag, closeRoom fails with the tag-policy
\* error and changes nothing, whatever clientAction and chatClosingTags are.
C2_NoTagAlwaysFails ==
    (/\ calls = 1
     /\ TagRequired(params["p1"].room[1])
     /\ NoTag(params["p1"].room[1].tags)
     /\ NoTag(params["p1"].options.tags))
    => FailedOnTagPolicy

\* C2 as amended: when the department requires a tag before closing and neither
\* the room nor the request carries a tag, closeRoom fails with the tag-policy
\* error and changes nothing if clientAction is set or the department has no
\* mandatory closing tag.
C2_NoTagFailsForClientOrNoDepartmentTag ==
    (/\ calls = 1
     /\ TagRequired(params["p1"].room[1])
     /\ NoTag(params["p1"].room[1].tags)
     /\ NoTag(params["p1"].options.tags)
     /\ (params["p1"].options.clientAction
         \/ NoTag(DepartmentOf(params["p1"].room[1])[1].chatClosingTags)))
    => FailedOnTagPolicy

\* a client action without any tag failed although the department has a mandatory tag
C2_Witness ==
    /\ calls = 1
    /\ TagRequired(params["p1"].room[1])
    /\ NoTag(params["p1"].room[1].tags)
    /\ NoTag(params["p1"].options.tags)
    /\ params["p1"].options.clientAction
    /\ ~NoTag(DepartmentOf(params["p1"].room[1])[1].chatClosingTags)
    /\ FailedOnTagPolicy

\* C9: when the department of the room requires a tag before closing and has no
\* mandatory closing tag, closeRoom fails with the tag-policy error and changes
\* nothing, whatever the tags of the room and of the request and clientAction.
C9_NoDepartmentTagAlwaysFails ==
    (/\ calls = 1
     /\ TagRequired(params["p1"].room[1])
     /\ NoTag(DepartmentOf(params["p1"].room[1])[1].chatClosingTags))
    => FailedOnTagPolicy

\* a close that is no client action, with tags on the room and in the request, failed
C9_Witness ==
    /\ calls = 1
    /\ TagRequired(params["p1"].room[1])
    /\ NoTag(DepartmentOf(params["p1"].room[1])[1].chatClosingTags)
    /\ ~params["p1"].options.clientAction
    /\ ~NoTag(params["p1"].room[1].tags)
    /\ ~NoTag(params["p1"].options.tags)
    /\ FailedOnTagPolicy

\* the union the tags written at close are to be: the room's, the request's and,
\* when the room's department is found, its chatClosingTags
ExpectedTags(room, options) ==
    TagSet(room.tags) \cup TagSet(options.tags)
        \cup (IF DepartmentOf(room) = None THEN {}
              ELSE TagSet(DepartmentOf(room)[1].chatClosingTags))

\* C10: once the tags are resolved, the tags closeRoom is about to write, and
\* the tags on the room once it has written, hold no tag twice and are, as a
\* set, the union of the room's tags, the request's tags and the chatClosingTags
\* of the room's department when it is found.
C10_WrittenTagsAreTheUnion ==
    /\ pc["p1"] = "update"
         => /\ TagSet(closeData["p1"].tags)
                 = ExpectedTags(params["p1"].room[1], params["p1"].options)
            /\ NoDuplicates(closeData["p1"].tags)
    /\ (calls = 1 /\ ~rooms["R1"].open)
         => /\ TagSet(rooms["R1"].tags)
                 = ExpectedTags(params["p1"].room[1], params["p1"].options)
            /\ NoDuplicates(rooms["R1"].tags)

\* the room was closed with tags from all three sources, given more than once
C10_Witness ==
    /\ ~rooms["R1"].open
    /\ params["p1"].room[1].tags = Some(<<"t1">>)
    /\ params["p1"].options.tags = Some(<<"t1", "t2">>)
    /\ DepartmentOf(params["p1"].room[1]) # None
    /\ DepartmentOf(params["p1"].room[1])[1].chatClosingTags = Some(<<"t2", "t2">>)
    /\ rooms["R1"].tags = Some(<<"t1", "t2">>)

\* C7: a room closed by closeRoom has chatDuration >= 0, a serviceTimeDuration
\* >= 0 when one was written, and a closedAt later than its creation timestamp.
C7_DurationsNotNegative ==
    ~rooms["R1"].open
    => /\ rooms["R1"].chatDuration[1] >= 0
       /\ rooms["R1"].serviceTimeDuration # None => rooms["R1"].serviceTimeDuration[1] >= 0
       /\ rooms["R1"].closedAt[1] > rooms["R1"].ts

\* the department d falls back to, when d is found and names one
FallbackOf(d) ==
    IF findDepartment(d) = None THEN None
    ELSE findDepartment(d)[1].fallbackForwardDepartment

\* the departments reached from the departments S by following fallbacks, S included
RECURSIVE ReachedFrom(_)
ReachedFrom(S) ==
    LET more == S \cup {FallbackOf(d)[1] : d \in {x \in S : FallbackOf(x) # None}}
    IN  IF more = S THEN S ELSE ReachedFrom(more)

\* the fallback chain that starts at d never comes back to one of its departments
Acyclic(d) ==
    \A x \in ReachedFrom({d}) :
        FallbackOf(x) = None \/ x \notin ReachedFrom({FallbackOf(x)[1]})

\* checkOnlineAgents was called with a department, no agent and fallback not skipped
ChainCall ==
    /\ agPc # "idle"
    /\ agArgs.department # None /\ agArgs.agent = None /\ ~agArgs.skipFallbackCheck

\* C4: called on a department whose fallback chain has no cycle, with no agent
\* and fallback not skipped, checkOnlineAgents makes fewer recursive calls than
\* there are departments and returns whether some department of the chain
\* has online agents.
C4_AcyclicChainResult ==
    (ChainCall /\ Acyclic(agArgs.department[1]))
    => /\ agHops < Cardinality(DeptIds)
       /\ agPc = "done"
            => agResult = Some(\E d \in ReachedFrom({agArgs.department[1]}) : d \in onlineDeps)

\* the last department of a chain of three is the only one with online agents
C4_Witness ==
    /\ ChainCall /\ Acyclic(agArgs.department[1])
    /\ agPc = "done" /\ agHops = 2 /\ agResult = Some(TRUE)
    /\ agArgs.department[1] \notin onlineDeps

\* C5: called on a department whose fallback chain enters a cycle,
\* checkOnlineAgents never makes more recursive calls than there are
\* departments, and returns false when no department it visits has online agents.
C5_CycleTerminates ==
    (ChainCall /\ ~Acyclic(agArgs.department[1]))
    => /\ agHops <= Cardinality(DeptIds)
       /\ (agPc = "done" /\ ReachedFrom({agArgs.department[1]}) \cap onlineDeps = {})
            => agResult = Some(FALSE)

\* C6: a room the store holds closed keeps its record, close metadata and tags
\* included, whatever closeRoom calls are under way: no later write changes it.
C6_ClosedRoomIsNotRewritten ==
    [][\A r \in RoomIds : ~rooms[r].open => rooms'[r] = rooms[r]]_vars

\* two calls by different closers passed the guard on the open room R1, and both
\* have made their room write
C6_Witness ==
    /\ pc["p1"] = "update" /\ pc["p2"] = "update"
    /\ "room" \notin pending["p1"] /\ "room" \notin pending["p2"]
    /\ params["p1"].room[1]._id = "R1" /\ params["p2"].room[1]._id = "R1"
    /\ closeData["p1"].closer # closeData["p2"].closer
    /\ ~rooms["R1"].open

\* the value checkOnlineAgents returns on the arguments frame, following its
\* recursive calls n deep
RECURSIVE ValueOfCheckOnlineAgents(_, _)
ValueOfCheckOnlineAgents(frame, n) ==
    IF checkOnlineAgents(frame).returns # None THEN checkOnlineAgents(frame).returns[1]
    ELSE IF n = 0 THEN FALSE
    ELSE ValueOfCheckOnlineAgents(checkOnlineAgents(frame).calls, n - 1)

\* a bot agent exists for the department, or at all when no department is given
BotExists(department) ==
    IF department = None THEN botUsers ELSE department[1] \in botDeps

\* C11: online returns true when Livechat_accept_chats_with_no_agents is enabled
\* and not skipped; otherwise true when Livechat_assign_new_conversation_to_bot
\* is enabled and a bot agent exists for the department (or at all, without a
\* department); otherwise what checkOnlineAgents(department, undefined,
\* skipFallbackCheck) returns.
C11_OnlineResult ==
    onPc = "done"
    => onResult = Some(
         IF settings.Livechat_accept_chats_with_no_agents /\ ~onArgs.skipNoAgentSetting
         THEN TRUE
         ELSE IF settings.Livechat_assign_new_conversation_to_bot
                 /\ BotExists(onArgs.department)
         THEN TRUE
         ELSE ValueOfCheckOnlineAgents(
                  [department |-> onArgs.department, agent |-> None,
                   skipFallbackCheck |-> onArgs.skipFallbackCheck], MaxHops))

\* the no-agents setting is enabled but skipped, and online went down a fallback
\* chain without online agents and returned false
C11_Witness ==
    /\ onPc = "done" /\ onResult = Some(FALSE)
    /\ settings.Livechat_accept_chats_with_no_agents /\ onArgs.skipNoAgentSetting
    /\ settings.Livechat_assign_new_conversation_to_bot
    /\ onArgs.department = Some("D1") /\ botDeps = {"D2"}
    /\ agHops = 2

\* the positions of the 'livechat_transcript_history' messages saved by
\* sendTranscript (the ones that carry its requestData)
AuditMessages ==
    {i \in DOMAIN messages :
        messages[i].t = "livechat_transcript_history" /\ messages[i].requestData # None}

\* a visitor exists for the token, and the room exists, is of kind 'l' and is
\* that visitor's
TranscriptAllowed(token, rid) ==
    /\ visitors[token] # None
    /\ rid \in DOMAIN rooms
    /\ rooms[rid].t = "l"
    /\ rooms[rid].v # None
    /\ rooms[rid].v[1].token = token

\* C12: sendTranscript sends an email and inserts the 'livechat_transcript_history'
\* message only if a visitor exists for the token and the room exists, is of kind
\* 'l' and its visitor's token is the token; otherwise it fails with
\* 'error-invalid-token' (no visitor) or 'error-invalid-room' and sends nothing.
C12_TranscriptOnlyForOwnRoom ==
    /\ (emails # <<>> \/ AuditMessages # {} \/ deferred # <<>> \/ events # <<>>)
       => TranscriptAllowed(trArgs.token, trArgs.rid)
    /\ (trPc = "done" /\ ~TranscriptAllowed(trArgs.token, trArgs.rid))
       => /\ trResult = IF visitors[trArgs.token] = None THEN "error-invalid-token"
                        ELSE "error-invalid-room"
          /\ emails = <<>>
          /\ AuditMessages = {}

\* a visitor asked for the transcript of another visitor's conversation
C12_Witness ==
    /\ trPc = "done" /\ trResult = "error-invalid-room"
    /\ visitors[trArgs.token] # None
    /\ trArgs.rid \in DOMAIN rooms
    /\ rooms[trArgs.rid].t = "l"
    /\ rooms[trArgs.rid].v = Some(Visitor("k2")) /\ trArgs.token = "k1"
    /\ emails = <<>>

\* the closing messages of the room the transcript is of
ClosingOf(rid) ==
    {i \in DOMAIN messages : messages[i].rid = rid /\ messages[i].t = "livechat-close"}

\* the room's visible messages of no ignored type before the time bound
TranscriptOf(rid, bound) ==
    {messages[i] : i \in
        {j \in DOMAIN messages :
            /\ messages[j].rid = rid
            /\ ~messages[j]._hidden
            /\ messages[j].t \notin
                 {"livechat_navigation_history", "livechat_transcript_history", "command",
                  "livechat-close", "livechat-started", "livechat_video_call"}
            /\ messages[j].ts < bound}}

\* C13: the messages rendered into a transcript are exactly the room's visible
\* messages whose type is not in the ignored set and whose timestamp is strictly
\* before the closing message's (or before the current time when the room has no
\* closing message), in ascending timestamp order.
C13_TranscriptSelection ==
    emails # <<>>
    => LET found == trLocals.messages
           html == emails[1].html
       IN  /\ \E bound \in Times :
                /\ IF ClosingOf(trArgs.rid) = {} THEN bound = trLocals.before
                   ELSE \E c \in ClosingOf(trArgs.rid) : bound = messages[c].ts
                /\ {found[k] : k \in DOMAIN found} = TranscriptOf(trArgs.rid, bound)
                /\ Len(found) = Cardinality(TranscriptOf(trArgs.rid, bound))
           /\ \A i, j \in DOMAIN found : i < j => found[i].ts <= found[j].ts
           /\ Len(html) = Len(found)
           /\ \A k \in DOMAIN html : html[k].msg = found[k].msg

\* a transcript of a closed conversation that holds a message sent at the closing
\* time: the message before it is rendered, the one at the closing time is not
C13_Witness ==
    /\ trResult = "true"
    /\ ClosingOf("R1") # {}
    /\ \E i \in DOMAIN messages, c \in ClosingOf("R1") :
          /\ messages[i].t = "" /\ messages[i].rid = "R1" /\ ~messages[i]._hidden
          /\ messages[i].ts = messages[c].ts
    /\ Len(emails[1].html) = 1

\* the events of a close: the two Apps bridge events and the callback chain
ClosingEvents == {"room-closed", "post-room-closed", "livechat.closeRoom"}

\* the positions of the messages of type t inserted by call c
MessagesOfCall(c, t) ==
    {i \in DOMAIN messages : messages[i].call = c /\ messages[i].t = t}

\* the positions of the emissions of event e by call c
EventsOfCall(c, e) ==
    {i \in DOMAIN events : events[i].call = c /\ events[i].e = e}

\* call c has inserted nothing, emitted nothing and scheduled nothing
ProducedNothing(c) ==
    /\ \A i \in DOMAIN messages : messages[i].call # c
    /\ \A i \in DOMAIN events : events[i].call # c
    /\ \A i \in DOMAIN ticks : ticks[i].call # c

\* the room of an emitted or scheduled event is closed in the store, and the
\* call it is of has inserted both of its messages
AfterSynchronousWork(x) ==
    /\ x.rid \in DOMAIN rooms
    /\ ~rooms[x.rid].open
    /\ MessagesOfCall(x.call, "livechat-close") # {}
    /\ MessagesOfCall(x.call, "command") # {}

WriteFailures == {"error-write-failed", "error-room-not-found"}

\* C15: when one of the three writes fails, or the re-read does not find the
\* room, closeRoom fails; the writes already applied stay as they are, and the
\* call inserts no closing message, no promptTranscript message and emits no
\* event or callback.
C15_WriteFailureKeepsWritesAndStops ==
    /\ [](/\ \A p \in Procs : result[p] \in WriteFailures => ProducedNothing(params[p].call)
          /\ \A i \in DOMAIN messages : messages[i].rid \in DOMAIN rooms
          /\ \A i \in DOMAIN events : events[i].rid \in DOMAIN rooms
          /\ \A i \in DOMAIN ticks : ticks[i].rid \in DOMAIN rooms)
    /\ [][\A p \in Procs :
            /\ (result[p] = "running" /\ result'[p] \in WriteFailures)
               => UNCHANGED <<rooms, inquiries, subscriptions>>
            /\ (/\ pc[p] = "update" /\ pending[p] = {} /\ pc'[p] # "update"
                /\ params[p].room[1]._id \notin DOMAIN rooms)
               => result'[p] = "error-room-not-found"]_vars

\* the first call made its room write and then failed on its inquiry write: the
\* room stays closed, its inquiry stays, and nothing was inserted or emitted
C15_Witness ==
    /\ calls = 1
    /\ \E p \in Procs :
          /\ result[p] = "error-write-failed"
          /\ params[p].room[1]._id = "R1"
    /\ "R1" \in DOMAIN rooms
    /\ ~rooms["R1"].open
    /\ "R1" \in inquiries
    /\ detached = {}
    /\ messages = <<>> /\ events = <<>> /\ ticks = <<>>

\* C16: in every state, a room that the store holds closed has its
\* 'livechat-close' message among the messages.
C16_ClosedRoomHasClosingMessage ==
    \A r \in RoomIds : ~rooms[r].open => \E i \in DOMAIN messages :
        messages[i].rid = r /\ messages[i].t = "livechat-close"

\* C17: within one call the three writes complete, then the room is re-read,
\* then the 'livechat-close' message with the comment is inserted, then the
\* promptTranscript message; no promptTranscript message is inserted when the
\* insertion of the 'livechat-close' message failed.
C17_SideEffectOrder ==
    /\ \A p \in Procs : newRoom[p] # None => (pending[p] = {} /\ ~newRoom[p][1].open)
    /\ \A i \in DOMAIN messages :
          messages[i].t = "livechat-close"
          => /\ ~rooms[messages[i].rid].open
             /\ messages[i].rid \notin inquiries
             /\ messages[i].rid \notin subscriptions
    /\ \A j \in DOMAIN messages :
          messages[j].t = "command"
          => \E i \in 1..(j - 1) :
                messages[i].t = "livechat-close" /\ messages[i].call = messages[j].call
    /\ \A p \in Procs :
          pc[p] \in {"saveSystemMessage", "callbacks"}
          => \E i \in MessagesOfCall(params[p].call, "livechat-close") :
                messages[i].msg = params[p].comment /\ messages[i].rid = newRoom[p][1]._id
    /\ \A p \in Procs :
          result[p] = "error-send-message" => ProducedNothing(params[p].call)

\* one call inserted its closing message and then its promptTranscript message;
\* the other failed to insert its closing message and inserted nothing
C17_Witness ==
    /\ Len(messages) = 2
    /\ messages[1].t = "livechat-close" /\ messages[1].msg = Some("resolved")
    /\ messages[2].t = "command" /\ messages[2].call = messages[1].call
    /\ \E p \in Procs : result[p] = "error-send-message" /\ params[p].call # messages[1].call

\* C18: when two calls on the same open room both pass the open check before
\* either writes, the loser is ignored: the room gets at most one 'livechat-close'
\* message and one promptTranscript message, and each event at most once.
C18_LoserIsIgnored ==
    /\ \A i, j \in DOMAIN messages :
          (messages[i].rid = messages[j].rid /\ messages[i].t = messages[j].t) => i = j
    /\ \A i, j \in DOMAIN events :
          (events[i].rid = events[j].rid /\ events[i].e = events[j].e) => i = j

\* C19: when a call that passed the guard returns successfully, its room is
\* closed in the store with the close metadata, has no inquiry and no
\* subscriptions.
C19_SuccessMeansClosed ==
    \A p \in Procs :
        result[p] = "ok"
        => LET rid == params[p].room[1]._id
           IN  /\ rid \in DOMAIN rooms
               /\ ~rooms[rid].open
               /\ rooms[rid].closedAt # None
               /\ rooms[rid].chatDuration # None
               /\ rooms[rid].closer # None
               /\ rooms[rid].closedBy # None
               /\ rid \notin inquiries
               /\ rid \notin subscriptions

\* a call on R1 returned successfully while the other caller's call on R1 failed
\* on a write
C19_Witness ==
    /\ result["p1"] = "ok" /\ params["p1"].room[1]._id = "R1"
    /\ result["p2"] = "error-write-failed" /\ params["p2"].room[1]._id = "R1"

\* C20: the close metadata written to the room has serviceTimeDuration exactly
\* when the room had a serving agent, a duration of 0 included.
C20_ServiceTimeIffServed ==
    ~rooms["R1"].open
    => (rooms["R1"].serviceTimeDuration # None <=> rooms["R1"].servedBy # None)

\* the closer and the identity closeRoom is to record for the request of p:
\* the user when one is supplied, else the visitor
RequestedCloser(p) ==
    IF params[p].user # None
    THEN [closer |-> "user", closedBy |-> params[p].user[1]]
    ELSE [closer |-> "visitor", closedBy |-> params[p].visitor[1]]

\* C21: on every successful closure the recorded closer is 'user' with closedBy
\* the supplied user when a user requested the close, and 'visitor' with closedBy
\* the supplied visitor when a visitor did; the 'livechat-close' message carries
\* the comment and is attributed to that same closer.
C21_RecordedCloserIsTheRequester ==
    \A p \in Procs :
        result[p] = "ok"
        => LET rid == params[p].room[1]._id
           IN  /\ rooms[rid].closer = Some(RequestedCloser(p).closer)
               /\ rooms[rid].closedBy = Some(RequestedCloser(p).closedBy)
               /\ \E i \in MessagesOfCall(params[p].call, "livechat-close") :
                     /\ messages[i].rid = rid
                     /\ messages[i].msg = params[p].comment
                     /\ messages[i].u = RequestedCloser(p).closedBy

\* what the stores hold of room b: its record, whether it has an inquiry and
\* subscriptions, its messages and the events emitted for it
OfRoom(b) ==
    LET IsOfRoom(x) == x.rid = b
    IN  <<rooms[b], b \in inquiries, b \in subscriptions,
          SelectSeq(messages, IsOfRoom), SelectSeq(events, IsOfRoom)>>

\* the step is of a closeRoom call on room b, or runs a nextTick callback of one
ActsOn(b) ==
    \/ \E p \in Procs :
          /\ pc'[p] # pc[p] \/ pending'[p] # pending[p] \/ calls' # calls
          /\ params'[p].room # None
          /\ params'[p].room[1]._id = b
          /\ \A q \in Procs \ {p} : pc'[q] = pc[q] /\ pending'[q] = pending[q]
    \/ ticks # <<>> /\ ticks' = Tail(ticks) /\ Head(ticks).rid = b

\* C22: a closeRoom call on room A, under any interleaving with operations on
\* another room B, leaves B's record, inquiry, subscriptions and messages
\* unchanged and emits no event for B.
C22_OtherRoomUnchanged ==
    [][\A b \in RoomIds : OfRoom(b)' # OfRoom(b) => ActsOn(b)]_vars

\* a call on R1 has made its writes and inserted its closing message while a call
\* on R2 is between its entry and its writes: R2 is still as it was
C22_Witness ==
    /\ pc["p1"] = "saveSystemMessage" /\ params["p1"].room[1]._id = "R1"
    /\ pc["p2"] = "update" /\ params["p2"].room[1]._id = "R2"
    /\ pending["p2"] = {"room", "inquiry", "subscriptions"}
    /\ ~rooms["R1"].open
    /\ rooms["R2"].open /\ "R2" \in inquiries /\ "R2" \in subscriptions
    /\ \A i \in DOMAIN messages : messages[i].rid = "R1"

\* the call ended at the missing rocket.cat user
NoUserFound == "No user provided and rocket.cat not found"

\* C23: sendTranscript returns success only once the 'livechat_transcript_history'
\* message is recorded, attributed to the requesting user when one with a
\* username is supplied (type 'user') and otherwise to rocket.cat (type
\* 'visitor'); with no requesting user and no rocket.cat it fails, records no
\* such message and has sent no transcript email.
C23_AuditBeforeSuccess ==
    /\ trResult = "true"
       => /\ Cardinality(AuditMessages) = 1
          /\ \A i \in AuditMessages :
                /\ messages[i].rid = trArgs.rid
                /\ IF trArgs.user # None /\ trArgs.user[1].username # None
                   THEN /\ messages[i].u = trArgs.user[1]
                        /\ messages[i].requestData[1].type = "user"
                   ELSE /\ messages[i].u._id = "rocket.cat"
                        /\ messages[i].requestData[1].type = "visitor"
    /\ (trPc = "done" /\ trArgs.user = None /\ ~rocketCat
        /\ TranscriptAllowed(trArgs.token, trArgs.rid))
       => /\ trResult = NoUserFound
          /\ AuditMessages = {}
          /\ emails = <<>>

====
